---------------------------- MODULE Spec2Model ----------------------------
(***************************************************************************)
(* Model of the AP-Classroom study guide generator.                        *)
(*                                                                         *)
(*  - the document composition engine of utils/guide_generator.py          *)
(*    (create_pdf_from_text and the ModernPDF drawing helpers), and        *)
(*  - the background job of app.py (generate_pdf_in_background) with the   *)
(*    /download route reading the files the job writes.                    *)
(*                                                                         *)
(* Text is a sequence of one-character strings.  Lengths are integers in   *)
(* units of 1/6000 mm, so that every length the code computes (25.4/300    *)
(* and 25.4/200 mm per pixel, halves of millimetres) is exact.             *)
(***************************************************************************)
EXTENDS Integers, Sequences, FiniteSets, TLC

VARIABLES
    \* create_pdf_from_text
    text,        \* text_content, the markup string
    main_font,   \* ModernPDF.main_font: "DejaVu" if the font files load, else "Helvetica"
    pc,          \* idle, composing, finalized, raised
    chunks,      \* the result of the re.split of the whole text
    ci, li,      \* the chunk the loop is at, and the line inside a text chunk
    pdf,         \* the ModernPDF canvas
    drawn,       \* the blocks handed to a drawing helper so far, in order
    emitted,     \* how many times pdf.output() returned the byte sequence
    \* app.py
    job,         \* the background thread: where it is, what the generator returned,
                 \* what create_pdf_from_text was called with
    status_file, \* TEMP_DIR/<job_id>.json: absent, empty, partial, or the status it holds
    pdf_file,    \* TEMP_DIR/study_guide_..pdf: absent, partial (being written) or whole
    dl,          \* the /download requests: where each is and what it answered
    poll         \* the /status request: where it is, what it read, what it answered
                 \* and whether the answer carries the PDF's filename

docVars == <<text, main_font, pc, chunks, ci, li, pdf, drawn, emitted>>
jobVars == <<job, status_file, pdf_file, dl, poll>>
vars == <<text, main_font, pc, chunks, ci, li, pdf, drawn, emitted,
          job, status_file, pdf_file, dl, poll>>

-----------------------------------------------------------------------------
(* Units and page geometry                                                 *)

\* n millimetres / n tenths of a millimetre, in model units
Mm(n) == n * 6000
Tenth(n) == n * 600

\* format='Letter': 215.9 mm x 279.4 mm
PAGE_W == Tenth(2159)
PAGE_H == Tenth(2794)
\* pdf.set_left_margin(20), pdf.set_right_margin(20); FPDF's default top margin
L_MARGIN == Mm(20)
R_MARGIN == Mm(20)
T_MARGIN == Mm(10)
\* set_auto_page_break(auto=True, margin=25)
B_MARGIN == Mm(25)
\* FPDF.page_break_trigger = h - b_margin
PAGE_BREAK_TRIGGER == PAGE_H - B_MARGIN
\* self.line_height = 6
line_height == Mm(6)
\* the hard-coded limit of the explicit page-break checks: "> 260"
BOX_BREAK_LIMIT == Mm(260)
\* "if pdf.get_y() < 240"
SMART_SPACING_LIMIT == Mm(240)

-----------------------------------------------------------------------------
(* Python string primitives on sequences of characters                      *)

Min(a, b) == IF a < b THEN a ELSE b
Max(a, b) == IF a > b THEN a ELSE b

\* s[i:] and s[:-k] style slices, 1-based and total
Slice(s, from, to) == IF from > to THEN <<>> ELSE SubSeq(s, Max(from, 1), Min(to, Len(s)))

\* p occurs in s at index i
OccursAt(s, i, p) ==
    /\ i >= 1
    /\ i + Len(p) - 1 <= Len(s)
    /\ \A k \in 1..Len(p) : s[i + k - 1] = p[k]

\* str.startswith / str.endswith
StartsWith(s, p) == OccursAt(s, 1, p)
EndsWith(s, p) == OccursAt(s, Len(s) - Len(p) + 1, p)

\* the least index >= from at which p occurs in s, 0 when there is none
IndexOf(s, p, from) ==
    IF \E i \in from..Len(s) : OccursAt(s, i, p)
    THEN CHOOSE i \in from..Len(s) :
             OccursAt(s, i, p) /\ \A j \in from..(i - 1) : ~OccursAt(s, j, p)
    ELSE 0

\* characters str.strip() removes
IsSpace(c) == c \in {" ", "\n"}

\* "not s.strip()"
IsBlank(s) == \A i \in 1..Len(s) : IsSpace(s[i])

\* str.strip()
Strip(s) ==
    IF IsBlank(s) THEN <<>>
    ELSE SubSeq(s,
             CHOOSE i \in 1..Len(s) : ~IsSpace(s[i]) /\ \A j \in 1..(i - 1) : IsSpace(s[j]),
             CHOOSE i \in 1..Len(s) : ~IsSpace(s[i]) /\ \A j \in (i + 1)..Len(s) : IsSpace(s[j]))

RECURSIVE SplitFrom(_, _, _)
SplitFrom(s, sep, from) ==
    LET i == IndexOf(s, sep, from)
    IN  IF i = 0 THEN <<Slice(s, from, Len(s))>>
        ELSE <<Slice(s, from, i - 1)>> \o SplitFrom(s, sep, i + Len(sep))

\* str.split(sep): always at least one piece
Split(s, sep) == SplitFrom(s, sep, 1)

\* str.split(sep, 1)
SplitOnce(s, sep) ==
    LET i == IndexOf(s, sep, 1)
    IN  IF i = 0 THEN <<s>> ELSE <<Slice(s, 1, i - 1), Slice(s, i + Len(sep), Len(s))>>

RECURSIVE Flatten(_)
Flatten(ss) == IF ss = <<>> THEN <<>> ELSE Head(ss) \o Flatten(Tail(ss))

\* str.upper() on the model's alphabet
Upper(s) == [i \in 1..Len(s) |-> IF s[i] = "a" THEN "A" ELSE s[i]]

-----------------------------------------------------------------------------
(* re.split with one capturing group whose alternatives are all of the     *)
(* shape  opener .*? closer                                                *)

\* the end index of the match of  open .*? close  that starts at i, 0 if none:
\* the lazy .*? stops at the first closer; without DOTALL . matches no "\n"
MatchEnd(s, i, alt, dotall) ==
    IF ~OccursAt(s, i, alt[1]) THEN 0
    ELSE LET j == IndexOf(s, alt[2], i + Len(alt[1]))
         IN  IF j = 0 THEN 0
             ELSE IF ~dotall /\ \E k \in (i + Len(alt[1]))..(j - 1) : s[k] = "\n" THEN 0
             ELSE j + Len(alt[2]) - 1

\* the alternative that matches at i (the first in order), 0 if none
AltAt(s, i, alts, dotall) ==
    LET ok == {a \in 1..Len(alts) : MatchEnd(s, i, alts[a], dotall) # 0}
    IN  IF ok = {} THEN 0 ELSE CHOOSE a \in ok : \A b \in ok : a <= b

\* leftmost match at or after from: <<start, end>>, or <<0, 0>>
MatchStart(s, from, alts, dotall) ==
    IF \E i \in from..Len(s) : AltAt(s, i, alts, dotall) # 0
    THEN CHOOSE i \in from..Len(s) :
             /\ AltAt(s, i, alts, dotall) # 0
             /\ \A j \in from..(i - 1) : AltAt(s, j, alts, dotall) = 0
    ELSE 0

NextMatch(s, from, alts, dotall) ==
    LET i == MatchStart(s, from, alts, dotall)
    IN  IF i = 0 THEN <<0, 0>>
        ELSE <<i, MatchEnd(s, i, alts[AltAt(s, i, alts, dotall)], dotall)>>

RECURSIVE ReSplitFrom(_, _, _, _)
ReSplitFrom(s, from, alts, dotall) ==
    LET m == NextMatch(s, from, alts, dotall)
    IN  IF m[1] = 0 THEN <<Slice(s, from, Len(s))>>
        ELSE <<Slice(s, from, m[1] - 1), SubSeq(s, m[1], m[2])>>
             \o ReSplitFrom(s, m[2] + 1, alts, dotall)

\* re.split(r'(A|B|...)', s): text, match, text, match, ..., text
ReSplit(s, alts, dotall) == ReSplitFrom(s, 1, alts, dotall)

\* the backtick character (written as a name: it cannot stand in a string literal)
BT == "backtick"
\* the characters outside ASCII of the model's alphabet: U+2014 (which
\* sanitize_for_fpdf replaces) and U+2192 (outside Latin-1)
EMDASH == "emdash"
ARROW == "arrow"

FENCE == <<BT, BT, BT>>
DOLLARS == <<"$", "$">>
BOX_OPEN == <<"[", "[", "B", "O", "X", ":">>
BOX_CLOSE == <<"]", "]">>
STARS == <<"*", "*">>

\* the chunk pattern of create_pdf_from_text (fence | $$ | [[BOX: ]]), re.DOTALL
ChunkPattern == << <<FENCE, FENCE>>, <<DOLLARS, DOLLARS>>, <<BOX_OPEN, BOX_CLOSE>> >>
\* the bold pattern of write_styled_text
BoldPattern == << <<STARS, STARS>> >>
\* the inline code | inline math pattern of _write_sub_segment
SubPattern == << << <<BT>>, <<BT>> >>, << <<"$">>, <<"$">> >> >>

-----------------------------------------------------------------------------
(* Fonts and encodings                                                     *)

\* characters that 'latin-1' cannot encode
NonLatin1 == {EMDASH, ARROW}

\* the replacements table of sanitize_for_fpdf, restricted to the alphabet,
\* and the '?' of encode('latin-1', 'replace')
SanitizeChar(c) ==
    IF c = EMDASH THEN <<"-", "-">>
    ELSE IF c \in NonLatin1 THEN <<"?">>
    ELSE <<c>>

sanitize_for_fpdf(s) == Flatten([i \in 1..Len(s) |-> SanitizeChar(s[i])])

\* ModernPDF._safe_text
safe_text(s) == IF main_font = "Helvetica" THEN sanitize_for_fpdf(s) ELSE s

\* FPDF's core fonts encode their text as Latin-1 and raise on any other
\* character; the embedded Unicode font draws every character
CoreFonts == {"Helvetica", "Courier"}
Encodable(s, fam) == fam \notin CoreFonts \/ \A i \in 1..Len(s) : s[i] \notin NonLatin1

\* advance width of one character: Courier is 0.6 em exactly, the
\* proportional fonts are given a nominal 0.5 em
CharW(fam, size) == IF fam = "Courier" THEN size * 1270 ELSE size * 1058

\* FPDF.get_string_width
StringWidth(s, fam, size) == Len(s) * CharW(fam, size)

-----------------------------------------------------------------------------
(* The FPDF canvas: p is the record of the document being composed          *)
(*   page, x, y     current page and cursor                                 *)
(*   fam, style, size  current font                                         *)
(*   blk            number of the block being drawn (0 outside blocks)      *)
(*   ops            everything drawn so far, in drawing order               *)
(*   raised         an exception left the drawing call                      *)
(*   net            the responses the rasterization service will give to    *)
(*                  the requests of the handler that is running             *)

NewPDF ==
    [page |-> 0, x |-> L_MARGIN, y |-> T_MARGIN, fam |-> "none", style |-> "", size |-> 0,
     blk |-> 0, ops |-> <<>>, raised |-> FALSE, net |-> <<>>]

\* p with one more drawn item: k in rect, text, line, image; zone in hdr,
\* ftr, body; the item remembers the block, the page and the font in force
Draw(p, k, zone, x, y, w, h, txt) ==
    [p EXCEPT !.ops = Append(@,
        [k |-> k, zone |-> zone, blk |-> p.blk, page |-> p.page, x |-> x, y |-> y,
         w |-> w, h |-> h, txt |-> txt, fam |-> p.fam, style |-> p.style])]

Font(p, fam, style, size) == [p EXCEPT !.fam = fam, !.style = style, !.size = size]

\* FPDF.set_font
set_font(p, fam, style, size) == IF p.raised THEN p ELSE Font(p, fam, style, size)

\* FPDF.ln(h): back to the left margin, down by h; no page-break check
Ln(p, h) == IF p.raised THEN p ELSE [p EXCEPT !.x = L_MARGIN, !.y = @ + h]

\* FPDF.set_y resets x to the left margin; FPDF.set_xy, FPDF.set_x
set_y(p, y) == IF p.raised THEN p ELSE [p EXCEPT !.x = L_MARGIN, !.y = y]
set_xy(p, x, y) == IF p.raised THEN p ELSE [p EXCEPT !.x = x, !.y = y]
set_x(p, x) == IF p.raised THEN p ELSE [p EXCEPT !.x = x]


\* the width of the text area
EPW == PAGE_W - R_MARGIN - L_MARGIN

\* ModernPDF.footer: rule and page number, 15 mm above the page bottom
footer(p) ==
    Draw(Draw(Font(p, main_font, "I", 8),
              "line", "ftr", Mm(10), PAGE_H - Mm(15), Tenth(1959), 0, <<>>),
         "text", "ftr", L_MARGIN, PAGE_H - Mm(15), EPW, Mm(10), 
         safe_text(<<"P", "a", "g", "e", " ", ToString(p.page)>>))

\* ModernPDF.header on page 1: the banner, its two centred lines, ln(20);
\* the cursor is left at y = 10 + 10 + 6 + 20 mm
Banner(p) ==
    [Draw(Font(Draw(Font(Draw(p, "rect", "hdr", 0, 0, Tenth(2159), Mm(35), <<>>),
                         main_font, "B", 24),
                    "text", "hdr", L_MARGIN, Mm(10), EPW, Mm(10), 
                    safe_text(<<"Study Guide", " ", "G", "u", "i", "d", "e">>)),
               main_font, "", 10),
          "text", "hdr", L_MARGIN, Mm(20), EPW, Mm(6),
          <<"Personalized Mastery Plan">>)
     EXCEPT !.x = L_MARGIN, !.y = Mm(46)]

\* ModernPDF.header: the minimal header of the later pages leaves y = 10 + 5 mm
header(p) == IF p.page = 1 THEN Banner(p) ELSE [p EXCEPT !.x = L_MARGIN, !.y = Mm(15)]


\* FPDF.add_page: footer of the page being left, the new page, its header;
\* the font in force before is restored afterwards
add_page(p) ==
    IF p.raised THEN p
    ELSE Font(header([(IF p.page > 0 THEN footer(p) ELSE p)
                     EXCEPT !.page = @ + 1, !.x = L_MARGIN, !.y = T_MARGIN]),
              p.fam, p.style, p.size)

\* FPDF.will_page_break(h)
WillPageBreak(p, h) == p.y + h > PAGE_BREAK_TRIGGER

\* FPDF._perform_page_break_if_need_be: the automatic break keeps x
AutoBreak(p, h) == IF WillPageBreak(p, h) THEN set_x(add_page(p), p.x) ELSE p

\* the width of a cell: w = 0 extends to the right margin
CellW(q, w) == IF w = 0 THEN PAGE_W - R_MARGIN - q.x ELSE w

\* the cursor after a cell: ln=1 goes to the start of the next line
AfterCell(d, cw, h, ln) ==
    IF ln = 1 THEN [d EXCEPT !.x = L_MARGIN, !.y = @ + h] ELSE [d EXCEPT !.x = @ + cw]

CellAt(q, w, h, txt, ln) ==
    AfterCell(Draw(q, "text", "body", q.x, q.y, CellW(q, w), h, txt), CellW(q, w), h, ln)

\* FPDF.cell(w, h, txt, ln=...)
Cell(p, w, h, txt, ln) ==
    IF p.raised THEN p
    ELSE IF ~Encodable(txt, p.fam) THEN [p EXCEPT !.raised = TRUE]
    ELSE CellAt(AutoBreak(p, h), w, h, txt, ln)

\* FPDF.rect, FPDF.line: no page-break check, the cursor stays
Rect(p, x, y, w, h) == IF p.raised THEN p ELSE Draw(p, "rect", "body", x, y, w, h, <<>>)
Line(p, x1, y1, x2, y2) ==
    IF p.raised THEN p ELSE Draw(p, "line", "body", x1, y1, x2 - x1, y2 - y1, <<>>)

ImageHere(q, x, w, h, src) == [Draw(q, "image", "body", x, q.y, w, h, src) EXCEPT !.y = @ + h]

\* FPDF.image(x=x, w=w, h=h) without y: automatic page break, drawn at the
\* cursor's y, cursor moved down by h
ImageFlow(p, x, w, h, src) == IF p.raised THEN p ELSE ImageHere(AutoBreak(p, h), x, w, h, src)

\* FPDF.image(x=x, y=y, w=w, h=h): drawn where it is told, the cursor stays
ImageAt(p, x, y, w, h, src) ==
    IF p.raised THEN p ELSE Draw(p, "image", "body", x, y, w, h, src)

\* cell margin of FPDF (1 mm), kept free on both sides of a multi_cell line
C_MARGIN == Mm(1)

\* the pieces of at most n characters a line is wrapped into (one for "")
RECURSIVE WrapLine(_, _)
WrapLine(s, n) ==
    IF Len(s) <= n THEN <<s>> ELSE <<SubSeq(s, 1, n)>> \o WrapLine(SubSeq(s, n + 1, Len(s)), n)

WrapRows(rows, n) == Flatten([i \in 1..Len(rows) |-> WrapLine(rows[i], n)])

\* FPDF.multi_cell(w, h, txt, split_only=True): the lines txt is laid out in
MultiCellLines(p, w, txt) ==
    WrapRows(Split(txt, <<"\n">>), Max(1, (CellW(p, w) - 2 * C_MARGIN) \div CharW(p.fam, p.size)))

RECURSIVE CellRows(_, _, _, _, _)
CellRows(p, x, w, h, rows) ==
    IF rows = <<>> \/ p.raised THEN p
    ELSE CellRows(set_x(Cell(p, w, h, Head(rows), 1), x), x, w, h, Tail(rows))

\* FPDF.multi_cell(w, h, txt): one cell per laid-out line, each with its own
\* automatic page-break check
MultiCell(p, w, h, txt) ==
    IF p.raised THEN p
    ELSE set_x(CellRows(p, p.x, CellW(p, w), h, MultiCellLines(p, w, txt)), L_MARGIN)

\* how many characters of the current font fit between the cursor and the
\* right margin
Fit(p) == (PAGE_W - R_MARGIN - p.x) \div CharW(p.fam, p.size)

\* the part of txt FPDF.write puts on the line the cursor is on
FirstRun(p, txt) == SubSeq(txt, 1, Min(Max(Fit(p), 1), Len(txt)))
Rest(p, txt) == SubSeq(txt, Len(FirstRun(p, txt)) + 1, Len(txt))

\* one line of FPDF.write at the cursor of q, which then moves to the end of
\* the run, or to the next line when text remains
WriteRun(q, h, run, more) ==
    IF more
    THEN [Draw(q, "text", "body", q.x, q.y, StringWidth(run, q.fam, q.size), h, run)
          EXCEPT !.x = L_MARGIN, !.y = @ + h]
    ELSE [Draw(q, "text", "body", q.x, q.y, StringWidth(run, q.fam, q.size), h, run)
          EXCEPT !.x = @ + StringWidth(run, q.fam, q.size)]

\* FPDF.write(h, txt): text flows from the cursor and wraps at the right
\* margin; every line it starts has its own automatic page-break check
RECURSIVE Write(_, _, _)
Write(p, h, txt) ==
    IF p.raised \/ txt = <<>> THEN p
    ELSE IF ~Encodable(txt, p.fam) THEN [p EXCEPT !.raised = TRUE]
    ELSE IF Fit(p) < 1 /\ p.x > L_MARGIN THEN Write(Ln(p, h), h, txt)
    ELSE Write(WriteRun(AutoBreak(p, h), h, FirstRun(p, txt), Rest(p, txt) # <<>>), h, Rest(p, txt))

-----------------------------------------------------------------------------
(* The formula rasterization service and ModernPDF.render_latex             *)

\* pixel sizes of the images the service returns
PixelSizes == {<<100, 50>>, <<2400, 60>>}

\* what one GET may end in: a network error or a status that is not 200, a
\* 200 with an empty body, a 200 with bytes PIL cannot open, a PNG
Responses ==
    {[kind |-> k, pw |-> 0, ph |-> 0] : k \in {"error", "empty", "garbage"}}
    \cup {[kind |-> "png", pw |-> s[1], ph |-> s[2]] : s \in PixelSizes}

\* render_latex sends a request unless the stripped formula is empty
Requests(formula) == ~IsBlank(formula)

NoImage == [kind |-> "none", pw |-> 0, ph |-> 0]

\* ModernPDF.render_latex: None (here NoImage) if the formula is blank or the
\* request fails, else the body of the response
render_latex(p, formula) ==
    IF ~Requests(formula) \/ p.net = <<>> THEN NoImage
    ELSE IF Head(p.net).kind = "error" THEN NoImage
    ELSE Head(p.net)

\* the canvas after the request was answered
Answered(p, formula) == IF Requests(formula) /\ p.net # <<>> THEN [p EXCEPT !.net = Tail(@)] ELSE p

\* "if img_data:" and Image.open succeeding
Decodes(img) == img.kind = "png"

\* (pixels / dpi) * 25.4 mm at the dpi of block and of inline formulas
BlockLen(px) == px * 508
InlineLen(px) == px * 762

FormulaPlaceholder(formula) == <<"[", "F", "o", "r", "m", "u", "l", "a", ":", " ">> \o formula \o <<"]">>

\* "if self.get_y() + h > 260: self.add_page()"
BreakIfOver(a, h) == IF ~a.raised /\ a.y + h > BOX_BREAK_LIMIT THEN add_page(a) ELSE a

\* the image of a block formula: x = (210 - w_mm) / 2, ln(2), the explicit
\* check, the image in the flow, ln(h_mm + 4)
BlockImage(p, img) ==
    Ln(ImageFlow(BreakIfOver(Ln(p, Mm(2)), BlockLen(img.ph)),
                 (Mm(210) - BlockLen(img.pw)) \div 2, BlockLen(img.pw), BlockLen(img.ph),
                 <<img.pw, img.ph>>),
       BlockLen(img.ph) + Mm(4))

\* the textual fallback of a block formula
BlockFallback(p, formula) ==
    Cell(set_font(p, "Courier", "", 10), 0, Mm(5), FormulaPlaceholder(formula), 1)

\* ModernPDF.draw_latex_formula
draw_latex_formula(p, formula) ==
    IF Decodes(render_latex(p, formula))
    THEN BlockImage(Answered(p, formula), render_latex(p, formula))
    ELSE BlockFallback(Answered(p, formula), formula)

-----------------------------------------------------------------------------
(* Inline runs: ModernPDF._write_sub_segment and write_styled_text          *)

IsCodePart(part) == StartsWith(part, <<BT>>) /\ EndsWith(part, <<BT>>)
IsMathPart(part) == StartsWith(part, <<"$">>) /\ EndsWith(part, <<"$">>)

\* part[1:-1]
Inner(part) == Slice(part, 2, Len(part) - 1)

\* inline code: Courier 10, a filled cell of the text's width + 2, and the
\* font reset to the regular main font
InlineCode(p, content) ==
    set_font(Cell(set_font(p, "Courier", "", 10),
                  StringWidth(content, "Courier", 10) + Mm(2), line_height, content, 0),
             main_font, "", 11)

\* an inline image whose height is computed at the dpi of block formulas
InlineImageStretched(p, img) ==
    set_x(ImageAt(p, p.x, p.y + (line_height - BlockLen(img.ph)) \div 2 + Mm(1),
                  InlineLen(img.pw), BlockLen(img.ph), <<img.pw, img.ph>>),
          p.x + InlineLen(img.pw) + Mm(1))

\* the image of an inline formula, centred on the text line, and the cursor
\* moved right by its width + 1
InlineImage(p, img) ==
    set_x(ImageAt(p, p.x, p.y + (line_height - InlineLen(img.ph)) \div 2 + Mm(1),
                  InlineLen(img.pw), InlineLen(img.ph), <<img.pw, img.ph>>),
          p.x + InlineLen(img.pw) + Mm(1))

\* the textual fallback of an inline formula
InlineFallback(p, formula) == Write(p, line_height, <<" ">> \o formula \o <<" ">>)

InlineMath(p, formula) ==
    IF Decodes(render_latex(p, formula))
    THEN InlineImage(Answered(p, formula), render_latex(p, formula))
    ELSE InlineFallback(Answered(p, formula), formula)

\* one part of the split of _write_sub_segment
write_part(p, part) ==
    IF part = <<>> THEN p
    ELSE IF IsCodePart(part) THEN InlineCode(p, sanitize_for_fpdf(Inner(part)))
    ELSE IF IsMathPart(part) THEN InlineMath(p, Inner(part))
    ELSE Write(p, line_height, safe_text(part))

RECURSIVE write_parts(_, _)
write_parts(p, parts) ==
    IF parts = <<>> \/ p.raised THEN p ELSE write_parts(write_part(p, Head(parts)), Tail(parts))

\* ModernPDF._write_sub_segment
write_sub_segment(p, s) == write_parts(p, ReSplit(s, SubPattern, FALSE))

\* the text _write_sub_segment gets for segment i (0-based) of the bold split
SegmentText(i, seg) == IF i % 2 = 1 THEN Slice(seg, 3, Len(seg) - 2) ELSE seg

\* one segment of the split of write_styled_text: the odd ones are bold
write_segment(p, i, seg) ==
    IF seg = <<>> THEN p
    ELSE IF i % 2 = 1
    THEN set_font(write_sub_segment(set_font(p, main_font, "B", 11), SegmentText(i, seg)),
                  main_font, "", 11)
    ELSE write_sub_segment(p, seg)

RECURSIVE write_segments(_, _, _)
write_segments(p, segs, i) ==
    IF i >= Len(segs) \/ p.raised THEN p
    ELSE write_segments(write_segment(p, i, segs[i + 1]), segs, i + 1)

\* ModernPDF.write_styled_text
write_styled_text(p, s) ==
    write_segments(set_font(p, main_font, "", 11), ReSplit(s, BoldPattern, FALSE), 0)

\* the formulas among parts for which render_latex sends a request
RECURSIVE MathParts(_)
MathParts(parts) ==
    IF parts = <<>> THEN <<>>
    ELSE (IF ~IsCodePart(Head(parts)) /\ IsMathPart(Head(parts)) /\ Requests(Inner(Head(parts)))
          THEN <<Head(parts)>> ELSE <<>>) \o MathParts(Tail(parts))

SegmentRequests(segs) ==
    Flatten([i \in 1..Len(segs) |->
                MathParts(ReSplit(SegmentText(i - 1, segs[i]), SubPattern, FALSE))])

\* the requests write_styled_text(s) sends to the service, in order
LineRequests(s) == SegmentRequests(ReSplit(s, BoldPattern, FALSE))

-----------------------------------------------------------------------------
(* Block drawing helpers of ModernPDF                                       *)

\* the rule under a heading 1, from the cursor, 190 mm long
Underline(c) == Line(c, c.x, c.y, c.x + Mm(190), c.y)

\* ModernPDF.write_h1
write_h1(p, s) ==
    Ln(Underline(Cell(set_font(Ln(p, Mm(5)), main_font, "B", 18),
                      0, Mm(8), safe_text(Upper(s)), 1)),
       Mm(6))

\* ModernPDF.write_h2
write_h2(p, s) ==
    Ln(MultiCell(set_font(Ln(p, Mm(4)), main_font, "B", 14), 0, Mm(8), safe_text(s)), Mm(2))

\* ModernPDF.write_body
write_body(p, s) == Ln(write_styled_text(p, s), line_height)

BulletGlyph == IF main_font = "Helvetica" THEN <<"*">> ELSE <<"bullet">>

\* ModernPDF.write_bullet
write_bullet(p, s) ==
    Ln(write_styled_text(Cell(set_font(p, main_font, "", 11), Mm(6), line_height, BulletGlyph, 0),
                         s),
       line_height)

\* the label, the code and the cursor after a code block whose background
\* was drawn at (x, y)
CodeBlockText(c, x, y, height, s) ==
    set_font(
        set_y(MultiCell(set_font(set_xy(Cell(set_xy(set_font(c, "Helvetica", "B", 6),
                                                    x + Mm(160), y + Mm(1)),
                                             Mm(8), Mm(4), <<"C", "O", "D", "E">>, 0),
                                        x + Mm(2), y + Mm(3)),
                                 "Courier", "", 9),
                        Mm(166), Mm(5), sanitize_for_fpdf(s)),
              y + height + Mm(4)),
        main_font, "", 11)

\* the background rectangle at the cursor's y (read after the explicit
\* check) and the x read before it
CodeBlockAt(b, x, height, s) == CodeBlockText(Rect(b, x, b.y, Mm(170), height), x, b.y, height, s)

\* height = num_lines * 5 + 6
CodeHeight(s) == Len(Split(s, <<"\n">>)) * Mm(5) + Mm(6)

CodeBlockFrom(a, s) == CodeBlockAt(BreakIfOver(a, CodeHeight(s)), a.x, CodeHeight(s), s)

\* ModernPDF.draw_code_block
draw_code_block(p, s) == CodeBlockFrom(set_font(Ln(p, Mm(2)), "Courier", "", 9), s)

\* the title, the body and the cursor after a callout box drawn at (x, y)
CalloutText(c, x, y, h, title, s) ==
    set_y(MultiCell(set_font(set_xy(Cell(set_font(set_xy(c, x + Mm(6), y + Mm(3)),
                                                  main_font, "B", 10),
                                         0, Mm(6), safe_text(Upper(title)), 1),
                                    x + Mm(6), y + Mm(9)),
                             main_font, "", 10),
                    Mm(160), Mm(6), safe_text(s)),
          y + h + Mm(4))

\* the background and the accent bar at the cursor (read after the check)
CalloutAt(b, h, title, s) ==
    CalloutText(Rect(Rect(b, b.x, b.y, Mm(170), h), b.x, b.y, Mm(2), h), b.x, b.y, h, title, s)

\* h = len(lines) * 6 + 12, lines being the dry run of the body's multi_cell
CalloutHeight(a, s) == Len(MultiCellLines(a, Mm(160), safe_text(s))) * Mm(6) + Mm(12)

CalloutFrom(a, title, s) == CalloutAt(BreakIfOver(a, CalloutHeight(a, s)), CalloutHeight(a, s), title, s)

\* ModernPDF.draw_callout_box
draw_callout_box(p, title, s) ==
    CalloutFrom(set_font(Ln(p, Mm(4)), main_font, "", 10), title, s)

-----------------------------------------------------------------------------
(* Inputs: markup strings put together from at most MaxFrags fragments      *)

MaxFrags == 2
\* number of lines of the tall code block and of the tall callout body
TallCodeLines == 41
TallBoxLines == 33

\* n rows "a" joined by newlines
RECURSIVE Rows(_)
Rows(n) == IF n <= 1 THEN <<"a">> ELSE <<"a", "\n">> \o Rows(n - 1)

Fragments ==
    { <<"#", "#", "#", " ", "a", "\n">>,
      <<"#", "#", "#", "#", " ", "a", "\n">>,
      <<"*", " ", "*", "*", "a", BT, "a", BT, "a", "*", "*", "\n">>,
      <<"a", "$", "a", "$", "\n">>,
      <<ARROW, EMDASH, "\n">>,
      <<"\n">>,
      FENCE \o <<"a">> \o FENCE,
      FENCE \o Rows(TallCodeLines) \o FENCE,
      FENCE \o <<"a", "\n">>,
      DOLLARS \o <<"a">> \o DOLLARS,
      DOLLARS \o <<ARROW>> \o DOLLARS,
      DOLLARS \o <<"a", "\n">>,
      BOX_OPEN \o <<"a", "|", "a">> \o BOX_CLOSE,
      BOX_OPEN \o Rows(TallBoxLines) \o BOX_CLOSE }

Texts == UNION {{Flatten(fs) : fs \in [1..n -> Fragments]} : n \in 0..MaxFrags}

-----------------------------------------------------------------------------
(* create_pdf_from_text                                                     *)

InLoop == pc = "composing" /\ ci <= Len(chunks)
Chunk == chunks[ci]

\* which branch of the loop body a chunk takes
Kind(c) ==
    IF IsBlank(c) THEN "skip"
    ELSE IF StartsWith(c, BOX_OPEN) THEN "box"
    ELSE IF StartsWith(c, FENCE) THEN "code"
    ELSE IF StartsWith(c, DOLLARS) THEN "math"
    ELSE "lines"

CurLines == Split(Chunk, <<"\n">>)
s_line == Strip(CurLines[li])

\* which branch of the line loop a stripped line takes
LineKind(s) ==
    IF StartsWith(s, <<"#", "#", "#", " ">>) THEN "h1"
    ELSE IF StartsWith(s, <<"#", "#", "#", "#", " ">>) THEN "h2"
    ELSE IF StartsWith(s, <<"*", " ">>) THEN "bullet"
    ELSE IF s # <<>> THEN "body"
    ELSE "blank"

AtLine(kind) == InLoop /\ Kind(Chunk) = "lines" /\ LineKind(s_line) = kind

\* the canvas at the start of the next block, with the service's responses
Begin(rs) == [pdf EXCEPT !.blk = Len(drawn) + 1, !.net = rs]

\* the loop moves on to the next chunk
NextChunk == ci' = ci + 1 /\ li' = 1

\* the line loop moves on to the next line, or leaves the chunk
NextLine == IF li < Len(CurLines) THEN ci' = ci /\ li' = li + 1 ELSE NextChunk

\* a drawing helper, called with arg while the service answers rs, returned
\* q: an exception leaves create_pdf_from_text
Returned(q, kind, arg, rs) ==
    /\ pdf' = [q EXCEPT !.net = <<>>, !.blk = 0]
    /\ drawn' = Append(drawn, [ci |-> ci, li |-> li, kind |-> kind, arg |-> arg, net |-> rs,
                                page |-> pdf.page, y |-> pdf.y])
    /\ pc' = IF q.raised THEN "raised" ELSE pc
    /\ UNCHANGED <<text, main_font, chunks, emitted>>
    /\ UNCHANGED jobVars

\* concurrent /download requests of one job
Clients == {1, 2}

NoJob == [pc |-> "idle", open |-> FALSE, guide_text |-> "none", composed |-> "none",
          raised |-> FALSE]
NoRequest == [pc |-> "idle", resp |-> "none"]
NoPoll == [pc |-> "idle", resp |-> "none", saw |-> "none", filename |-> FALSE]

JobIdle ==
    /\ job = NoJob
    /\ status_file = "absent"
    /\ pdf_file = "absent"
    /\ dl = [c \in Clients |-> NoRequest]
    /\ poll = NoPoll

Init ==
    /\ text \in Texts
    /\ main_font \in {"DejaVu", "Helvetica"}
    /\ pc = "idle"
    /\ chunks = <<>>
    /\ ci = 1
    /\ li = 1
    /\ pdf = NewPDF
    /\ drawn = <<>>
    /\ emitted = 0
    /\ JobIdle

\* ModernPDF(...), the margins, add_page() and the re.split
Construct ==
    /\ pc = "idle"
    /\ pdf' = add_page(NewPDF)
    /\ chunks' = ReSplit(text, ChunkPattern, TRUE)
    /\ pc' = "composing"
    /\ UNCHANGED <<text, main_font, ci, li, drawn, emitted>>
    /\ UNCHANGED jobVars

\* "if not chunk.strip(): continue"
SkipChunk ==
    /\ InLoop /\ Kind(Chunk) = "skip"
    /\ NextChunk
    /\ UNCHANGED <<text, main_font, pc, chunks, pdf, drawn, emitted>>
    /\ UNCHANGED jobVars

DrawCalloutBox ==
    /\ InLoop /\ Kind(Chunk) = "box"
    /\ LET content == Slice(Chunk, 7, Len(Chunk) - 2)
           parts   == SplitOnce(content, <<"|">>)
       IN  IF Len(parts) = 2
           THEN Returned(draw_callout_box(Begin(<<>>), Strip(parts[1]), Strip(parts[2])),
                         "box", Strip(parts[2]), <<>>)
           ELSE Returned(draw_callout_box(Begin(<<>>), <<"N", "o", "t", "e">>, Strip(content)),
                         "box", Strip(content), <<>>)
    /\ NextChunk

DrawCodeBlock ==
    /\ InLoop /\ Kind(Chunk) = "code"
    /\ LET code == Strip(Slice(Chunk, 4, Len(Chunk) - 3))
       IN  Returned(draw_code_block(Begin(<<>>), code), "code", code, <<>>)
    /\ NextChunk

DrawLatexFormula ==
    /\ InLoop /\ Kind(Chunk) = "math"
    /\ LET formula == Strip(Slice(Chunk, 3, Len(Chunk) - 2))
       IN  \E rs \in [1..(IF Requests(formula) THEN 1 ELSE 0) -> Responses] :
               Returned(draw_latex_formula(Begin(rs), formula), "math", formula, rs)
    /\ NextChunk

WriteH1 ==
    /\ AtLine("h1")
    /\ LET s == Slice(s_line, 5, Len(s_line))
       IN  Returned(write_h1(Begin(<<>>), s), "h1", s, <<>>)
    /\ NextLine

WriteH2 ==
    /\ AtLine("h2")
    /\ LET s == Slice(s_line, 6, Len(s_line))
       IN  Returned(write_h2(Begin(<<>>), s), "h2", s, <<>>)
    /\ NextLine

WriteBullet ==
    /\ AtLine("bullet")
    /\ LET s == Slice(s_line, 3, Len(s_line))
       IN  \E rs \in [1..Len(LineRequests(s)) -> Responses] :
               Returned(write_bullet(Begin(rs), s), "bullet", s, rs)
    /\ NextLine

WriteBody ==
    /\ AtLine("body")
    /\ \E rs \in [1..Len(LineRequests(s_line)) -> Responses] :
           Returned(write_body(Begin(rs), s_line), "body", s_line, rs)
    /\ NextLine

\* "Smart spacing": an empty line is a 2 mm gap while y < 240
BlankLine ==
    /\ AtLine("blank")
    /\ pdf' = IF pdf.y < SMART_SPACING_LIMIT THEN Ln(pdf, Mm(2)) ELSE pdf
    /\ NextLine
    /\ UNCHANGED <<text, main_font, pc, chunks, drawn, emitted>>
    /\ UNCHANGED jobVars

\* a return inside the loop: the bytes are emitted whatever is left to draw
OutputEarly ==
    /\ pc = "composing"
    /\ pdf' = footer(pdf)
    /\ emitted' = emitted + 1
    /\ pc' = "finalized"
    /\ UNCHANGED <<text, main_font, chunks, ci, li, drawn>>
    /\ UNCHANGED jobVars

\* "return pdf.output()": FPDF closes the document (the footer of the last
\* page) and returns the bytes
Output ==
    /\ pc = "composing" /\ ci > Len(chunks)
    /\ pdf' = footer(pdf)
    /\ emitted' = emitted + 1
    /\ pc' = "finalized"
    /\ UNCHANGED <<text, main_font, chunks, ci, li, drawn>>
    /\ UNCHANGED jobVars

Next ==
    \/ Construct
    \/ SkipChunk
    \/ DrawCalloutBox
    \/ DrawCodeBlock
    \/ DrawLatexFormula
    \/ WriteH1
    \/ WriteH2
    \/ WriteBullet
    \/ WriteBody
    \/ BlankLine
    \/ Output

Spec == Init /\ [][Next]_vars

-----------------------------------------------------------------------------
(* Properties of the composed document                                     *)

\* the draw operations of the body of the pages, and those of block k
BodyOps == {i \in DOMAIN pdf.ops : pdf.ops[i].zone = "body"}
OpsOf(k) == {i \in BodyOps : pdf.ops[i].blk = k}
BoxBlocks == {k \in DOMAIN drawn : drawn[k].kind \in {"code", "box"}}

\* C1: every code block and every callout box is drawn on one single page,
\* which is the page the cursor was on or the page after it, and its
\* rectangles end above the bottom margin of that page: when the box does
\* not fit, one page was added before any part of it was drawn.
C1_BoxOnOnePage ==
    \A k \in BoxBlocks :
        /\ \A i, j \in OpsOf(k) : pdf.ops[i].page = pdf.ops[j].page
        /\ \A i \in OpsOf(k) : pdf.ops[i].page \in {drawn[k].page, drawn[k].page + 1}
        /\ \A i \in OpsOf(k) :
               pdf.ops[i].k = "rect" => pdf.ops[i].y + pdf.ops[i].h <= PAGE_BREAK_TRIGGER

\* C2: nothing is drawn below the bottom margin: every draw operation of the
\* body of a page ends at or above page height - 25 mm.
C2_AboveBottomMargin ==
    \A i \in BodyOps : pdf.ops[i].y + pdf.ops[i].h <= PAGE_BREAK_TRIGGER

\* the text chunks (odd indices of the split) that hold an opening marker
\* which the pattern could not close
Unclosed(marker) == {k \in DOMAIN chunks : k % 2 = 1 /\ IndexOf(chunks[k], marker, 1) > 0}

\* all the text between the opening marker in chunk k and the end of the input
AfterMarker(k, marker) ==
    Strip(Slice(chunks[k], IndexOf(chunks[k], marker, 1) + Len(marker), Len(chunks[k]))
          \o Flatten(SubSeq(chunks, k + 1, Len(chunks))))

\* the last block drawn is of this kind, starts in chunk k and holds txt
ClosedAs(kind, k, txt) ==
    /\ drawn # <<>>
    /\ drawn[Len(drawn)].kind = kind
    /\ drawn[Len(drawn)].ci = k
    /\ drawn[Len(drawn)].arg = txt

\* C3: an opening fence (an opening $$) without a closing one is closed by
\* the end of the input: once the build has returned, the last block drawn
\* is one code block (one block formula) holding all the text after the
\* marker, so that none of it was drawn line by line.
C3_ImplicitlyClosed ==
    pc = "finalized" =>
        /\ \A k \in Unclosed(FENCE) : ClosedAs("code", k, AfterMarker(k, FENCE))
        /\ \A k \in Unclosed(DOLLARS) : ClosedAs("math", k, AfterMarker(k, DOLLARS))

\* the formulas of block k whose rasterization failed
FailedFormulas(k) ==
    IF drawn[k].kind = "math"
    THEN IF drawn[k].net # <<>> /\ Decodes(drawn[k].net[1]) THEN {} ELSE {drawn[k].arg}
    ELSE IF drawn[k].kind \in {"body", "bullet"}
    THEN {Inner(LineRequests(drawn[k].arg)[n]) :
              n \in {m \in DOMAIN drawn[k].net : ~Decodes(drawn[k].net[m])}}
    ELSE {}

\* a bracketed placeholder holding formula f
Bracketed(s, f) ==
    Len(s) >= 2 /\ s[1] = "[" /\ s[Len(s)] = "]" /\ IndexOf(s, f, 1) > 0

\* C4: for every formula whose rasterization failed, block or inline, a
\* bracketed placeholder holding the formula is drawn in its block, and the
\* block of a failed formula does not abort the build.
C4_PlaceholderDrawn ==
    \A k \in DOMAIN drawn :
        \A f \in FailedFormulas(k) :
            /\ ~(pc = "raised" /\ k = Len(drawn))
            /\ \E i \in OpsOf(k) : pdf.ops[i].k = "text" /\ Bracketed(pdf.ops[i].txt, f)

\* C8: every formula image is placed with the ratio of its pixel size:
\* width / height = pw / ph, cross-multiplied.
C8_AspectRatio ==
    \A i \in DOMAIN pdf.ops :
        pdf.ops[i].k = "image" =>
            pdf.ops[i].w * pdf.ops[i].txt[2] = pdf.ops[i].h * pdf.ops[i].txt[1]

\* a block formula and an inline formula, both rasterized, of different
\* pixel sizes, are on the pages
C8_Witness ==
    \E i, j \in DOMAIN pdf.ops :
        /\ pdf.ops[i].k = "image" /\ drawn[pdf.ops[i].blk].kind = "math"
        /\ pdf.ops[j].k = "image" /\ drawn[pdf.ops[j].blk].kind = "body"
        /\ pdf.ops[i].txt # pdf.ops[j].txt

\* the blocks of the input: a chunk that is a box, a code block or a block
\* formula, or a non-empty line of a text chunk
IsBlockAt(k, l) ==
    IF Kind(chunks[k]) = "lines"
    THEN l \in DOMAIN Split(chunks[k], <<"\n">>)
         /\ LineKind(Strip(Split(chunks[k], <<"\n">>)[l])) # "blank"
    ELSE Kind(chunks[k]) # "skip" /\ l = 1

\* every block of the input was drawn, and the blocks drawn are in input
\* order without repetition
AllDrawn ==
    \A k \in DOMAIN chunks : \A l \in 1..Len(chunks[k]) :
        IsBlockAt(k, l) => \E d \in DOMAIN drawn : drawn[d].ci = k /\ drawn[d].li = l
InOrder ==
    \A d, e \in DOMAIN drawn :
        d < e => \/ drawn[d].ci < drawn[e].ci
                 \/ drawn[d].ci = drawn[e].ci /\ drawn[d].li < drawn[e].li

\* C9: a build goes idle -> composing -> finalized (or raises while
\* composing); the bytes are emitted once, by the step into finalized, when
\* every block of the input has been drawn once and in input order; after
\* that nothing is drawn and no page is added.
C9_Lifecycle ==
    [][ /\ pc' # pc => <<pc, pc'>> \in {<<"idle", "composing">>, <<"composing", "finalized">>,
                                        <<"composing", "raised">>}
        /\ emitted' # emitted =>
               /\ emitted = 0 /\ emitted' = 1
               /\ pc = "composing" /\ pc' = "finalized"
               /\ AllDrawn /\ InOrder
        /\ pc' = "finalized" => emitted' = 1
        /\ emitted = 1 => pdf' = pdf /\ drawn' = drawn ]_vars

\* the bytes of a document of several blocks and pages were emitted
C9_Witness == emitted = 1 /\ Len(drawn) >= 2 /\ pdf.page >= 2

\* the characters that are content in the inputs of the model
ContentChars == {"a", ARROW, EMDASH}
IsContent(c) == c \in ContentChars
Content(s) == SelectSeq(s, IsContent)

\* the text drawn in the body of the pages, in drawing order
RECURSIVE TextOf(_)
TextOf(ops) ==
    IF ops = <<>> THEN <<>>
    ELSE (IF Head(ops).zone = "body" /\ Head(ops).k = "text" THEN Head(ops).txt ELSE <<>>)
         \o TextOf(Tail(ops))

\* every fence, $$ and box of the input is closed, and it has no formula
\* (a formula is drawn as an image)
WellFormedText ==
    /\ Unclosed(FENCE) = {} /\ Unclosed(BOX_OPEN) = {}
    /\ \A i \in DOMAIN text : text[i] # "$"

\* C10: once a well-formed input is composed in the document font (nothing
\* is transliterated), the content characters drawn, in drawing order, are
\* the content characters of the input: none dropped, added, reordered or
\* altered.
C10_ContentPreserved ==
    (pc = "finalized" /\ WellFormedText /\ main_font = "DejaVu")
        => Content(TextOf(pdf.ops)) = Content(text)

\* the plain-text leaves of a styled line, in order, each with the style of
\* the bold context it lies in: the odd segments of the bold split are bold
LeavesOf(i, seg) ==
    [txt \in {part \in {ReSplit(SegmentText(i, seg), SubPattern, FALSE)[n] :
                           n \in DOMAIN ReSplit(SegmentText(i, seg), SubPattern, FALSE)} :
                 part # <<>> /\ ~IsCodePart(part) /\ ~IsMathPart(part)}
        |-> IF i % 2 = 1 THEN "B" ELSE ""]

BoldSegments(s) == ReSplit(s, BoldPattern, FALSE)

\* the style the bold context of line s gives to the plain leaf txt, "none"
\* when txt is no plain leaf of s or lies in contexts of both kinds
ContextStyle(s, txt) ==
    LET styles == {LeavesOf(n - 1, BoldSegments(s)[n])[txt] :
                      n \in {m \in DOMAIN BoldSegments(s) :
                                BoldSegments(s)[m] # <<>>
                                /\ txt \in DOMAIN LeavesOf(m - 1, BoldSegments(s)[m])}}
    IN  IF Cardinality(styles) = 1 THEN CHOOSE st \in styles : TRUE ELSE "none"

\* the runs of plain text drawn for block k: the text in the main font,
\* without the bullet glyph
PlainRunsOf(k) ==
    {i \in OpsOf(k) : /\ pdf.ops[i].k = "text"
                      /\ pdf.ops[i].fam = main_font
                      /\ pdf.ops[i].txt # BulletGlyph}

StyledBlocks == {k \in DOMAIN drawn : drawn[k].kind \in {"body", "bullet"}}

\* C11: in a paragraph or bullet, every run of plain text is drawn in the
\* style of its bold context: bold inside ** **, also after an inline-code
\* or inline-math span of the same bold span, and regular outside.
C11_BoldContext ==
    \A k \in StyledBlocks : \A i \in PlainRunsOf(k) :
        ContextStyle(drawn[k].arg, pdf.ops[i].txt) \in {"B", ""}
            => pdf.ops[i].style = ContextStyle(drawn[k].arg, pdf.ops[i].txt)

\* the images of the block formulas that the input closes
BlockImages ==
    {i \in BodyOps : /\ pdf.ops[i].k = "image"
                     /\ drawn[pdf.ops[i].blk].kind = "math"
                     /\ drawn[pdf.ops[i].blk].ci \notin Unclosed(DOLLARS)}

\* C12: the image of a block formula is at most as wide as the text area
\* (page width minus the two margins) and has the same distance to the left
\* and to the right edge of the page.
C12_FitsAndCentred ==
    \A i \in BlockImages :
        /\ pdf.ops[i].w <= EPW
        /\ pdf.ops[i].x = PAGE_W - (pdf.ops[i].x + pdf.ops[i].w)

\* the images of the inline formulas
InlineImages ==
    {i \in BodyOps : pdf.ops[i].k = "image" /\ drawn[pdf.ops[i].blk].kind \in {"body", "bullet"}}

\* C13: an inline image has its natural width at 200 dpi, and it ends at or
\* before the right margin unless it starts a line: an image wider than
\* the rest of the line was moved to the start of a new line.
C13_InlineImageOnLine ==
    \A i \in InlineImages :
        /\ pdf.ops[i].w = InlineLen(pdf.ops[i].txt[1])
        /\ \/ pdf.ops[i].x + pdf.ops[i].w <= PAGE_W - R_MARGIN
           \/ pdf.ops[i].x = L_MARGIN

\* the cursor is where the header of the page left it and nothing is drawn
\* on the page yet: an empty line here would be leading blank space
FreshPage ==
    /\ pdf.y = header(pdf).y
    /\ \A i \in BodyOps : pdf.ops[i].page # pdf.page

\* C14: the step that handles an empty line draws nothing, adds no page and
\* no block, and moves the cursor down exactly when the cursor is not at the
\* top of a freshly started page.
C14_BlankLineGap ==
    [][ AtLine("blank") =>
            /\ drawn' = drawn
            /\ pdf'.ops = pdf.ops /\ pdf'.page = pdf.page
            /\ IF FreshPage THEN pdf'.y = pdf.y ELSE pdf'.y > pdf.y ]_vars

\* C15: on the fallback font Helvetica, for an input whose fences and $$
\* are closed, no drawing call raises, and every text drawn, on the pages'
\* bodies, headers and footers, holds only characters of Latin-1.
C15_FallbackEncodable ==
    (main_font = "Helvetica" /\ Unclosed(FENCE) = {} /\ Unclosed(DOLLARS) = {}) =>
        /\ pc # "raised"
        /\ \A i \in DOMAIN pdf.ops :
               pdf.ops[i].k = "text" =>
                   \A n \in DOMAIN pdf.ops[i].txt : pdf.ops[i].txt[n] \notin NonLatin1

-----------------------------------------------------------------------------
(* app.py: the background job, /status and /download                       *)

\* what create_study_guide_text returns: the guide, or one of its failure
\* sentences ("Failed to configure AI...", "An error occurred while ...")
GuideResults == {"guide", "config_failure", "api_failure"}
GuideFailures == {"config_failure", "api_failure"}

\* the update_status calls of generate_pdf_in_background: the status each
\* writes, and where the thread goes on
Updates == {"u_analyzing", "u_extracting", "u_generating", "u_creating", "u_complete", "u_error"}

StatusOf(u) ==
    IF u = "u_complete" THEN "complete" ELSE IF u = "u_error" THEN "error" ELSE "processing"

After(u) ==
    CASE u = "u_analyzing"  -> "analyzing"
      [] u = "u_extracting" -> "extracting"
      [] u = "u_generating" -> "generating"
      [] u = "u_creating"   -> "creating"
      [] OTHER              -> "done"

JobAt(l) == job.pc = l /\ ~job.open
Goto(l) == job' = [job EXCEPT !.pc = l]

\* /generate: the checks of the request, the 'pending' status file, the thread
generate_guide_route ==
    /\ JobAt("idle")
    /\ \E api_key \in BOOLEAN, request_ok \in BOOLEAN :
           IF api_key /\ request_ok
           THEN status_file' = "pending" /\ Goto("u_analyzing")
           ELSE status_file' = status_file /\ Goto("rejected")
    /\ UNCHANGED <<pdf_file, dl, poll>>
    /\ UNCHANGED docVars

\* update_status: open(status_file, 'w') truncates the file
OpenStatus ==
    /\ job.pc \in Updates /\ ~job.open
    /\ status_file' = "empty"
    /\ job' = [job EXCEPT !.open = TRUE]
    /\ UNCHANGED <<pdf_file, dl, poll>>
    /\ UNCHANGED docVars

\* update_status: json.dump and flush; a long text reaches the file in pieces
DumpStatus ==
    /\ job.pc \in Updates /\ job.open
    /\ \/ status_file = "empty" /\ status_file' = "partial" /\ job' = job
       \/ status_file' = StatusOf(job.pc) /\ job' = [job EXCEPT !.pc = After(job.pc), !.open = FALSE]
    /\ UNCHANGED <<pdf_file, dl, poll>>
    /\ UNCHANGED docVars

\* the ValueError is not caught: the thread ends without a status
AnalyzeUncaught ==
    /\ JobAt("analyzing")
    /\ \E weak_topics \in BOOLEAN : Goto(IF weak_topics THEN "u_extracting" ELSE "done")
    /\ UNCHANGED <<status_file, pdf_file, dl, poll>>
    /\ UNCHANGED docVars

\* get_weak_topics_and_subject, and the ValueError when there are no topics
Analyze ==
    /\ JobAt("analyzing")
    /\ \E weak_topics \in BOOLEAN : Goto(IF weak_topics THEN "u_extracting" ELSE "u_error")
    /\ UNCHANGED <<status_file, pdf_file, dl, poll>>
    /\ UNCHANGED docVars

\* extract_text_from_pdf, and the ValueError when there is no text
Extract ==
    /\ JobAt("extracting")
    /\ \E ced_text \in BOOLEAN : Goto(IF ced_text THEN "u_generating" ELSE "u_error")
    /\ UNCHANGED <<status_file, pdf_file, dl, poll>>
    /\ UNCHANGED docVars

\* guide_text = create_study_guide_text(...): it returns its failures as text
CreateText ==
    /\ JobAt("generating")
    /\ \E g \in GuideResults : job' = [job EXCEPT !.pc = "u_creating", !.guide_text = g]
    /\ UNCHANGED <<status_file, pdf_file, dl, poll>>
    /\ UNCHANGED docVars

\* pdf_bytes = create_pdf_from_text(guide_text): it returns or raises
Compose ==
    /\ JobAt("creating")
    /\ \E raises \in BOOLEAN :
           job' = [job EXCEPT !.pc = IF raises THEN "u_error" ELSE "saving",
                              !.composed = job.guide_text, !.raised = raises]
    /\ UNCHANGED <<status_file, pdf_file, dl, poll>>
    /\ UNCHANGED docVars

\* the completion is signalled as soon as the file is open
OpenPdfSignalled ==
    /\ JobAt("saving")
    /\ pdf_file' = "partial"
    /\ Goto("u_complete")
    /\ UNCHANGED <<status_file, dl, poll>>
    /\ UNCHANGED docVars

\* open(pdf_file, 'wb')
OpenPdf ==
    /\ JobAt("saving")
    /\ pdf_file' = "partial"
    /\ Goto("writing")
    /\ UNCHANGED <<status_file, dl, poll>>
    /\ UNCHANGED docVars

\* f.write(pdf_bytes) and the close at the end of the with block, or an OSError
WritePdf ==
    /\ JobAt("writing")
    /\ \E written \in BOOLEAN :
           IF written
           THEN pdf_file' = "whole" /\ Goto("u_complete")
           ELSE pdf_file' = pdf_file /\ Goto("u_error")
    /\ UNCHANGED <<status_file, dl, poll>>
    /\ UNCHANGED docVars

\* a status file that json.load / json.loads cannot decode
Undecodable(f) == f \in {"empty", "partial"}

\* /status: status_file.exists()
StatusExists ==
    /\ poll.pc = "idle"
    /\ poll' = IF status_file = "absent"
               THEN [poll EXCEPT !.pc = "done", !.resp = "404 not_found", !.saw = "absent"]
               ELSE [poll EXCEPT !.pc = "reading"]
    /\ UNCHANGED <<job, status_file, pdf_file, dl>>
    /\ UNCHANGED docVars

\* the status that holds the key 'filename' (l.70)
NamesFile(f) == f = "complete"

\* a /status whose read fails on a file that is being rewritten
job_status_unguarded ==
    /\ poll.pc = "reading"
    /\ poll' = [pc |-> "done", saw |-> status_file,
                resp |-> IF status_file = "absent" \/ Undecodable(status_file) THEN "500 error"
                         ELSE status_file,
                filename |-> FALSE]
    /\ UNCHANGED <<job, status_file, pdf_file, dl>>
    /\ UNCHANGED docVars

\* /status: the read of the file inside the try; 'complete' is answered
\* without the rest of the file, any other status with the whole file
job_status ==
    /\ poll.pc = "reading"
    /\ poll' = [pc |-> "done", saw |-> status_file,
                resp |-> IF status_file = "absent" THEN "500 error"
                         ELSE IF Undecodable(status_file) THEN "pending"
                         ELSE status_file,
                filename |-> IF status_file = "absent" \/ Undecodable(status_file) THEN FALSE
                             ELSE IF status_file = "complete" THEN FALSE
                             ELSE NamesFile(status_file)]
    /\ UNCHANGED <<job, status_file, pdf_file, dl>>
    /\ UNCHANGED docVars

Answer(c, r) == dl' = [dl EXCEPT ![c] = [pc |-> "done", resp |-> r]]
Step(c, l) == dl' = [dl EXCEPT ![c].pc = l]

\* /download: status_file.exists()
DownloadExists(c) ==
    /\ dl[c].pc = "idle"
    /\ IF status_file = "absent" THEN Answer(c, "404") ELSE Step(c, "loading")
    /\ UNCHANGED <<job, status_file, pdf_file, poll>>
    /\ UNCHANGED docVars

\* /download: job = json.load(f) outside any try, then the test of the status
DownloadLoad(c) ==
    /\ dl[c].pc = "loading"
    /\ IF status_file = "absent" \/ Undecodable(status_file) THEN Answer(c, "500")
       ELSE IF status_file = "complete" THEN Step(c, "looking")
       ELSE Answer(c, "404")
    /\ UNCHANGED <<job, status_file, pdf_file, poll>>
    /\ UNCHANGED docVars

\* /download: pdf_path.exists()
DownloadPdfExists(c) ==
    /\ dl[c].pc = "looking"
    /\ IF pdf_file = "absent" THEN Answer(c, "404") ELSE Step(c, "sending")
    /\ UNCHANGED <<job, status_file, pdf_file, poll>>
    /\ UNCHANGED docVars

\* /download: send_file opens the file and the response carries what it holds
SendFile(c) ==
    /\ dl[c].pc = "sending"
    /\ dl' = [dl EXCEPT ![c] = IF pdf_file = "absent"
                               THEN [pc |-> "done", resp |-> "500"]
                               ELSE [pc |-> "closing", resp |-> pdf_file]]
    /\ UNCHANGED <<job, status_file, pdf_file, poll>>
    /\ UNCHANGED docVars

\* cleanup: status_file.unlink(missing_ok=True)
CleanupStatus(c) ==
    /\ dl[c].pc = "closing"
    /\ status_file' = "absent"
    /\ Step(c, "unlinking")
    /\ UNCHANGED <<job, pdf_file, poll>>
    /\ UNCHANGED docVars

\* cleanup: pdf_path.unlink(missing_ok=True)
CleanupPdf(c) ==
    /\ dl[c].pc = "unlinking"
    /\ pdf_file' = "absent"
    /\ Step(c, "done")
    /\ UNCHANGED <<job, status_file, poll>>
    /\ UNCHANGED docVars

Download ==
    \E c \in Clients :
        \/ DownloadExists(c)
        \/ DownloadLoad(c)
        \/ DownloadPdfExists(c)
        \/ SendFile(c)
        \/ CleanupStatus(c)
        \/ CleanupPdf(c)

\* one job: the document variables stay as they are
JobInit ==
    /\ text = <<>> /\ main_font = "DejaVu" /\ pc = "idle"
    /\ chunks = <<>> /\ ci = 1 /\ li = 1
    /\ pdf = NewPDF /\ drawn = <<>> /\ emitted = 0
    /\ JobIdle

JobNext ==
    \/ generate_guide_route
    \/ OpenStatus
    \/ DumpStatus
    \/ Analyze
    \/ Extract
    \/ CreateText
    \/ Compose
    \/ OpenPdf
    \/ WritePdf
    \/ StatusExists
    \/ job_status
    \/ Download

JobSpec == JobInit /\ [][JobNext]_vars

\* the steps of the thread that thread.start() runs
WorkerStep ==
    \/ OpenStatus
    \/ DumpStatus
    \/ Analyze
    \/ Extract
    \/ CreateText
    \/ Compose
    \/ OpenPdf
    \/ WritePdf

\* the started thread keeps running: every call it makes returns or raises
JobFairSpec == JobSpec /\ WF_vars(WorkerStep)

-----------------------------------------------------------------------------
(* Properties of the job                                                   *)

\* C5: when create_study_guide_text returned a failure, create_pdf_from_text
\* is not called with it, no PDF file is written and the status never says
\* complete.
C5_FailureReported ==
    job.guide_text \in GuideFailures =>
        /\ job.composed = "none"
        /\ pdf_file = "absent"
        /\ status_file # "complete"

\* C6: the status file says complete only while the whole PDF is in its
\* file; a /status answer of complete comes after the job has finished
\* without raising; a download answers with the whole PDF or with an error,
\* never with a part of it; and when composition raised, the status is never
\* complete, no download serves a PDF, and the job ends with status error.
C6_NoPartialArtifact ==
    /\ status_file = "complete" => pdf_file = "whole"
    /\ poll.resp = "complete" => job.pc = "done" /\ ~job.raised
    /\ \A c \in Clients : dl[c].resp \in {"none", "404", "500", "whole"}
    /\ job.raised =>
           /\ status_file # "complete"
           /\ \A c \in Clients : dl[c].resp # "whole"
           /\ JobAt("done") => status_file = "error"

\* two downloads raced for a finished job: one was served the whole PDF and
\* the other an error
C6_Witness ==
    \E c, d \in Clients : dl[c].resp = "whole" /\ dl[c].pc = "done" /\ dl[d].resp = "500"

\* the job was started by /generate, and a download has removed its files
Started == job.pc \notin {"idle", "rejected"}
Cleaned == \E c \in Clients : dl[c].pc \in {"unlinking", "done"} /\ dl[c].resp \in {"whole", "partial"}

\* C16: while no download has removed the files, the status file of a
\* started job exists and a finished /status request has answered without a
\* server error: 'pending' if it read an empty or partly written file, else
\* the status it read, which was fully written; no answer carries the
\* PDF's filename.
C16_PollAnswers ==
    /\ ~poll.filename
    /\ (Started /\ ~Cleaned) => status_file # "absent"
    /\ poll.resp = "500 error" => Cleaned
    /\ (poll.pc = "done" /\ poll.saw # "absent") =>
           poll.resp = IF Undecodable(poll.saw) THEN "pending" ELSE poll.saw

\* a /status request read a partly written status file and answered pending
C16_Witness ==
    poll.pc = "done" /\ poll.saw = "partial" /\ poll.resp = "pending" /\ ~Cleaned

Terminal(f) == f \in {"complete", "error"}

\* C17: the status file holds 'pending' only before the thread has taken a
\* step, 'processing' only while the thread runs, and a terminal status
\* only once the thread has ended; 'pending' is written by the step that
\* starts the thread; a terminal status is written by the last step of the
\* thread, after which the thread does nothing and the status does not
\* change (a download may remove the file); and a started thread ends,
\* leaving a terminal status.
C17_StatusSequence ==
    /\ [](/\ status_file = "pending" => JobAt("u_analyzing")
          /\ status_file = "processing" => (Started /\ job.pc # "done")
          /\ Terminal(status_file) => job.pc = "done"
          /\ (job.pc = "done" /\ ~Cleaned) => Terminal(status_file))
    /\ [][ /\ (status_file' = "pending" /\ status_file # "pending") =>
                  (job.pc = "idle" /\ status_file = "absent")
           /\ (Terminal(status_file') /\ status_file' # status_file) =>
                  (job.pc \in {"u_complete", "u_error"} /\ job'.pc = "done")
           /\ Terminal(status_file) => status_file' \in {status_file, "absent"}
           /\ job.pc = "done" => job' = job ]_vars
    /\ (Started ~> job.pc = "done")

\* a job went through pending and processing and ended with a terminal status
C17_Witness == job.pc = "done" /\ Terminal(status_file) /\ job.composed # "none"

=============================================================================
